---------------------------- MODULE Spec2Model ----------------------------
(***************************************************************************)
(* StochOPy Viewer (stochopy/gui/gui.py): the Tk front-end that forwards   *)
(* the widget values to a solver, replays the returned arrays as an        *)
(* animation and exports them.                                             *)
(*                                                                         *)
(* The Tk variables are the typed scalars define_variables declares        *)
(* (IntVar, DoubleVar, BooleanVar, StringVar) and always hold a value of   *)
(* their type; text reaches the program only through _validate_stepsize.   *)
(* Floating-point values are exact decimals m * 10^e; a logarithm that is  *)
(* not an integer is kept as the term log10(m * 10^e).                     *)
(***************************************************************************)
EXTENDS Integers, Sequences, FiniteSets, TLC

None == [kind |-> "None"]

-----------------------------------------------------------------------------
(* Floats: exact decimals and the special values numpy produces.           *)

RECURSIVE Pow(_, _)
Pow(b, n) == IF n <= 0 THEN 1 ELSE b * Pow(b, n - 1)

RECURSIVE Normalize(_, _)
Normalize(m, e) ==
    IF m = 0 THEN [kind |-> "dec", m |-> 0, e |-> 0]
    ELSE IF m % 10 = 0 THEN Normalize(m \div 10, e + 1)
    ELSE [kind |-> "dec", m |-> m, e |-> e]

Dec(m, e) == Normalize(m, e)

NaN == [kind |-> "nan", m |-> 0, e |-> 0]
NegInf == [kind |-> "-inf", m |-> 0, e |-> 0]
ValueError == [kind |-> "ValueError", m |-> 0, e |-> 0]

\* np.log10 of a Python float: nan below zero, -inf at zero, never raises
Log10(x) ==
    IF x.kind # "dec" THEN NaN
    ELSE IF x.m < 0 THEN NaN
    ELSE IF x.m = 0 THEN NegInf
    ELSE IF x.m = 1 THEN Dec(x.e, 0)
    ELSE [kind |-> "log10", m |-> x.m, e |-> x.e]

-----------------------------------------------------------------------------
(* float(val) on a Python str, given as a sequence of characters.          *)

DigitChars == {"0", "1", "2", "3", "4", "5", "6", "7", "8", "9"}

DigitValue(c) ==
    CASE c = "0" -> 0 [] c = "1" -> 1 [] c = "2" -> 2 [] c = "3" -> 3
      [] c = "4" -> 4 [] c = "5" -> 5 [] c = "6" -> 6 [] c = "7" -> 7
      [] c = "8" -> 8 [] c = "9" -> 9

AllDigits(s) == \A i \in 1..Len(s) : s[i] \in DigitChars

RECURSIVE DigitsToInt(_)
DigitsToInt(s) ==
    IF Len(s) = 0 THEN 0
    ELSE 10 * DigitsToInt(SubSeq(s, 1, Len(s) - 1)) + DigitValue(s[Len(s)])

Positions(s, chars) == {i \in 1..Len(s) : s[i] \in chars}

HasSign(s) == Len(s) > 0 /\ s[1] \in {"-", "+"}
Unsigned(s) == IF HasSign(s) THEN Tail(s) ELSE s
SignOf(s) == IF HasSign(s) /\ s[1] = "-" THEN -1 ELSE 1

\* the decimal point splits the mantissa; at least one digit is required
MantissaOk(s) ==
    LET dots == Positions(s, {"."})
        digits == SelectSeq(s, LAMBDA c : c # ".")
    IN  /\ Cardinality(dots) <= 1
        /\ Len(digits) >= 1
        /\ AllDigits(digits)

MantissaInt(s) == DigitsToInt(SelectSeq(s, LAMBDA c : c # "."))

FracLen(s) ==
    LET dots == Positions(s, {"."})
    IN  IF dots = {} THEN 0 ELSE Len(s) - (CHOOSE i \in dots : TRUE)

ExponentOk(s) == Len(Unsigned(s)) >= 1 /\ AllDigits(Unsigned(s))
ExponentInt(s) == SignOf(s) * DigitsToInt(Unsigned(s))

ParseFloat(val) ==
    LET body == Unsigned(val)
        es == Positions(body, {"e", "E"})
    IN  IF Cardinality(es) > 1 THEN ValueError
        ELSE LET epos == IF es = {} THEN Len(body) + 1 ELSE CHOOSE i \in es : TRUE
                 mant == SubSeq(body, 1, epos - 1)
                 expo == SubSeq(body, epos + 1, Len(body))
             IN  IF ~MantissaOk(mant) THEN ValueError
                 ELSE IF es # {} /\ ~ExponentOk(expo) THEN ValueError
                 ELSE Dec(SignOf(val) * MantissaInt(mant),
                          (IF es = {} THEN 0 ELSE ExponentInt(expo)) - FracLen(mant))


\* round(x, 3) of a decimal; round(10.**float(val), 3) of the step-size scale
Round3(x) ==
    IF x.kind # "dec" \/ x.e >= -3 THEN x
    ELSE LET d == Pow(10, -3 - x.e)
         IN  Dec((2 * x.m + d) \div (2 * d), -3)

\* 10.**x
Pow10(x) ==
    IF x.kind = "log10" THEN Dec(x.m, x.e)
    ELSE IF x.kind = "-inf" THEN Dec(0, 0)
    ELSE IF x.kind = "dec" /\ x.e >= 0 THEN Dec(1, x.m * Pow(10, x.e))
    ELSE IF x.kind = "dec" THEN [kind |-> "pow10", m |-> x.m, e |-> x.e]
    ELSE NaN

-----------------------------------------------------------------------------
(* Class attributes of StochOGUI.                                          *)

MAX_SEED == 999999
FUNCOPT == <<"Ackley", "Quartic", "Quartic noise", "Rastrigin", "Rosenbrock",
             "Sphere", "Styblinski-Tang">>
EAOPT == <<"CPSO", "PSO", "DE", "CMAES">>
MCOPT == <<"Hastings", "Hamiltonian">>
MIN_POPSIZE == [cpso |-> 2, pso |-> 2, de |-> 4, cmaes |-> 4]

Range(s) == {s[i] : i \in 1..Len(s)}

\* str.lower() and str.upper() on the solver names
Lower(name) ==
    CASE name \in {"CPSO", "cpso"} -> "cpso"
      [] name \in {"PSO", "pso"} -> "pso"
      [] name \in {"DE", "de"} -> "de"
      [] name \in {"CMAES", "cmaes"} -> "cmaes"
      [] name \in {"Hastings", "hastings", "HASTINGS"} -> "hastings"
      [] name \in {"Hamiltonian", "hamiltonian", "HAMILTONIAN"} -> "hamiltonian"

Upper(name) ==
    CASE name \in {"CPSO", "cpso"} -> "CPSO"
      [] name \in {"PSO", "pso"} -> "PSO"
      [] name \in {"DE", "de"} -> "DE"
      [] name \in {"CMAES", "cmaes"} -> "CMAES"
      [] name \in {"Hastings", "hastings", "HASTINGS"} -> "HASTINGS"
      [] name \in {"Hamiltonian", "hamiltonian", "HAMILTONIAN"} -> "HAMILTONIAN"

\* "_".join(self.function.get().split()).lower()
FuncKey(name) ==
    CASE name = "Ackley" -> "ackley"
      [] name = "Quartic" -> "quartic"
      [] name = "Quartic noise" -> "quartic_noise"
      [] name = "Rastrigin" -> "rastrigin"
      [] name = "Rosenbrock" -> "rosenbrock"
      [] name = "Sphere" -> "sphere"
      [] name = "Styblinski-Tang" -> "styblinski-tang"

-----------------------------------------------------------------------------
(* Bounds of the model.                                                    *)

MaxEdits == 2          \* widget edits in one session
MaxPopsize == 4        \* largest population size typed into the spinbox
MaxIter == 1           \* largest iteration count typed into the spinbox
MaxDraws == 3          \* generator draws counted since the last seeding
EnergyLevels == 5      \* distinct energy values a solver returns
MaxTextLen == 2        \* characters typed into the step-size entry
MaxColumns == 3        \* iterations of a returned array that are kept
MaxRows == 4           \* individuals of a returned array that are kept
MaxGfitRows == 2       \* individuals of an energy matrix given to _gfit
MaxGfitColumns == 2    \* iterations of an energy matrix given to _gfit
MaxEnergy == 2         \* largest energy of a matrix given to _gfit

\* values the widgets can be set to
PopsizeChoices == 1..MaxPopsize
MaxIterChoices == 1..MaxIter
SeedChoices == {MAX_SEED}
RandintChoices == {0, MAX_SEED - 1}
Filenames == {<<>>, <<"f">>}
TextChars == {"0", "1", ".", "-", "e", "x"}

-----------------------------------------------------------------------------
(* numpy arrays: a shape and nested sequences of values.                   *)

\* obj.name; an attribute that was never set raises AttributeError
Attr(obj, name) ==
    IF name \in DOMAIN obj THEN obj[name] ELSE [kind |-> "AttributeError"]

\* np.array_equal
ArrayEqual(a, b) ==
    IF a.shape # b.shape THEN FALSE ELSE a.data = b.data

Min2(a, b) == IF a <= b THEN a ELSE b

\* energy[:,i].min(), i counted from 1
RECURSIVE ColumnMinFrom(_, _, _)
ColumnMinFrom(energy, i, a) ==
    IF a = energy.shape[1] THEN energy.data[a][i]
    ELSE Min2(energy.data[a][i], ColumnMinFrom(energy, i, a + 1))

ColumnMin(energy, i) == ColumnMinFrom(energy, i, 1)

\* for i in range(1, energy.shape[1]): gfit.append(min(gfit[i-1], ...))
RECURSIVE GfitLoop(_, _, _)
GfitLoop(energy, gfit, i) ==
    IF i > energy.shape[2] THEN gfit
    ELSE GfitLoop(energy, Append(gfit, Min2(gfit[i - 1], ColumnMin(energy, i))), i + 1)

\* the minimum of each iteration, not carried over from the one before
_gfit_per_column(energy) ==
    [shape |-> <<energy.shape[2]>>,
     data |-> [i \in 1..energy.shape[2] |-> ColumnMin(energy, i)]]

_gfit(energy) ==
    LET gfit == GfitLoop(energy, <<ColumnMin(energy, 1)>>, 2)
    IN  [shape |-> <<Len(gfit)>>, data |-> gfit]

-----------------------------------------------------------------------------
(* The collaborators gui.py imports: numpy's global generator, the         *)
(* benchmark functions and the two solver classes.  A solver is a          *)
(* deterministic function of its arguments and of the generator state.     *)

\* np.random.seed(s)
SeedRng(s) == [seed |-> s, draws |-> 0]

\* the generator after one more draw from it
Advance(g) == [g EXCEPT !.draws = IF g.draws < MaxDraws THEN g.draws + 1 ELSE MaxDraws]

\* np.random.randint(high): an integer of [0, high)
randint(high) == {v \in RandintChoices \cup {high, high + 1} : 0 <= v /\ v < high}

BenchmarkFunction(func, n_dim) == [func |-> func, n_dim |-> n_dim]

DecNum(x) == x.m + 3 * x.e

\* what the returned values depend on: every argument and the generator
Digest(obj, name, params, g) ==
    LET h == DOMAIN params
        RECURSIVE Sum(_)
        Sum(S) == IF S = {} THEN 0
                  ELSE LET k == CHOOSE k \in S : TRUE
                       IN  DecNum(params[k]) + 2 * Sum(S \ {k})
    IN  ( Len(obj.func) + 3 * obj.popsize + 5 * obj.max_iter
          + (IF obj.clip THEN 7 ELSE 0) + 11 * Len(name)
          + Sum(h) + 13 * (g.seed % 1000) + 17 * g.draws ) % 1009

Value(d, c, a, i) == (d + 2 * c + 3 * a + a * i + i * i * d) % EnergyLevels

MonteCarlo(bf, max_iter, clip) ==
    [class |-> "MonteCarlo", func |-> bf.func, popsize |-> 1,
     max_iter |-> max_iter, clip |-> clip,
     _solver |-> "", models |-> None, energy |-> None]

Evolutionary(bf, popsize, max_iter, clip) ==
    [class |-> "Evolutionary", func |-> bf.func, popsize |-> popsize,
     max_iter |-> max_iter, clip |-> clip,
     _solver |-> "", models |-> None, energy |-> None]

\* the model keeps the first MaxColumns iterations and MaxRows individuals of
\* the arrays a solver returns
Columns(max_iter) == IF max_iter < MaxColumns THEN max_iter ELSE MaxColumns
Rows(popsize) == IF popsize < MaxRows THEN popsize ELSE MaxRows

\* MonteCarlo.sample: models (n_dim, max_iter), energy (max_iter)
sample(obj, sampler, stepsize, n_leap, g) ==
    LET d == Digest(obj, sampler, [stepsize |-> stepsize, n_leap |-> Dec(n_leap, 0)], g)
        n == Columns(obj.max_iter)
    IN  [obj EXCEPT
            !._solver = sampler,
            !.models = [shape |-> <<2, n>>,
                        data |-> [c \in 1..2 |-> [i \in 1..n |-> Value(d, c, 1, i)]]],
            !.energy = [shape |-> <<n>>,
                        data |-> [i \in 1..n |-> Value(d, 3, 1, i)]]]

\* Evolutionary.optimize with snap = True: models (n_dim, popsize, max_iter),
\* energy (popsize, max_iter)
optimize(obj, solver_name, params, g) ==
    LET d == Digest(obj, solver_name, params, g)
        n == Columns(obj.max_iter)
        p == Rows(obj.popsize)
    IN  [obj EXCEPT
            !._solver = solver_name,
            !.models = [shape |-> <<2, p, n>>,
                        data |-> [c \in 1..2 |-> [a \in 1..p |->
                                    [i \in 1..n |-> Value(d, c, a, i)]]]],
            !.energy = [shape |-> <<p, n>>,
                        data |-> [a \in 1..p |-> [i \in 1..n |-> Value(d, 3, a, i)]]]]

-----------------------------------------------------------------------------
VARIABLES
    tk,             \* the Tk variables of define_variables, by name
    first_run,      \* StochOGUI.first_run
    anim_running,   \* StochOGUI.anim_running
    solver,         \* self.solver
    bf,             \* self.bf
    anim,           \* self.anim, with the state of its timer
    orphan_timers,  \* timers of replaced animations that were never stopped
    scatplot,       \* self.scatplot, the line of the left panel
    enerplot,       \* self.enerplot, the red line of the right panel
    rng,            \* numpy's global generator
    event,          \* the last user event and what its handler returned
    dialog,         \* the dialog the last event opened
    written,        \* the file the last event wrote
    calls,          \* the solver methods the last event called
    edits,          \* widget edits made so far
    ref             \* a remembered fixed-seed run

pvars == <<tk, first_run, anim_running, solver, bf, anim, orphan_timers, scatplot,
           enerplot, rng, event, dialog, written, calls, edits>>
vars == <<pvars, ref>>

\* define_variables, init_variables and the class attributes
Init ==
    /\ tk = [solver_name |-> "CPSO", function |-> "Rosenbrock", popsize |-> 10,
             max_iter |-> 200, interval |-> 60, stepsize |-> Dec(1, -1),
             log_stepsize |-> Log10(Dec(1, -1)), n_leap |-> 10,
             w |-> Dec(72, -2), c1 |-> Dec(149, -2), c2 |-> Dec(149, -2),
             gamma |-> Dec(125, -2), CR |-> Dec(5, -1), F |-> Dec(1, 0),
             sigma |-> Dec(1, 0), mu_perc |-> Dec(5, -1), seed |-> 42,
             fix_seed |-> FALSE, clip |-> FALSE]
    /\ first_run = TRUE
    /\ anim_running = FALSE
    /\ solver = None
    /\ bf = None
    /\ anim = None
    /\ orphan_timers = 0
    /\ scatplot = None
    /\ enerplot = None
    /\ rng = [seed |-> -1, draws |-> 0]
    /\ event = [op |-> "init"]
    /\ dialog = None
    /\ written = None
    /\ calls = <<>>
    /\ edits = 0
    /\ ref = None

-----------------------------------------------------------------------------
(* Run: check_variables, run and animate.                                  *)

MonteCarloNames == {"hastings", "hamiltonian"}
EvolutionaryNames == {"cpso", "pso", "de", "cmaes"}

PopsizeTooSmall_inclusive(v) ==
    LET solver_name == Lower(v.solver_name)
    IN  /\ Upper(solver_name) \in Range(EAOPT)
        /\ v.popsize <= MIN_POPSIZE[solver_name]

\* the condition under which check_variables shows the error and returns False
PopsizeTooSmall(v) ==
    LET solver_name == Lower(v.solver_name)
    IN  /\ Upper(solver_name) \in Range(EAOPT)
        /\ v.popsize < MIN_POPSIZE[solver_name]

check_variables(v) == ~PopsizeTooSmall(v)

PopsizeError(v) ==
    LET solver_name == Lower(v.solver_name)
    IN  [kind |-> "showerror", title |-> "Error",
         text |-> <<"For", Upper(solver_name),
                    ", population size should be greater than",
                    MIN_POPSIZE[solver_name] - 1>>]

FirstRunAfter_before_check(ok) == FALSE

\* first_run after lines 354-357, ok being what check_variables returned
FirstRunAfter(ok) == IF ok THEN FALSE ELSE first_run

\* the seed variable after lines 360-361, r being the integer randint returned
NewSeed(v, r) == IF ~v.fix_seed THEN r ELSE v.seed

\* the generator is seeded before the seed variable is redrawn
SeededGenerator_old_seed(v, r) == SeedRng(v.seed)

\* the generator is seeded only when a new seed was drawn
SeededGenerator_not_when_fixed(v, r) == IF v.fix_seed THEN rng ELSE SeedRng(r)

\* the generator the solver draws from: np.random.seed(self.seed.get()) after
\* the seed variable was updated
SeededGenerator(v, r) == SeedRng(NewSeed(v, r))

\* the solver object after lines 369-390: constructed, then one method called
Solve(v, b, g) ==
    LET solver_name == Lower(v.solver_name)
    IN  IF solver_name \in MonteCarloNames
        THEN sample(MonteCarlo(b, v.max_iter, v.clip), solver_name,
                    v.stepsize, v.n_leap, g)
        ELSE IF solver_name \in EvolutionaryNames
        THEN optimize(Evolutionary(b, v.popsize, v.max_iter, v.clip), solver_name,
                      [w |-> v.w, c1 |-> v.c1, c2 |-> v.c2, gamma |-> v.gamma,
                       CR |-> v.CR, F |-> v.F, sigma |-> v.sigma,
                       mu_perc |-> v.mu_perc], g)
        ELSE solver

\* the methods Solve calls, with the generator they are called with
SolverCalls(v, g) ==
    LET solver_name == Lower(v.solver_name)
    IN  IF solver_name \in MonteCarloNames
        THEN <<[class |-> "MonteCarlo", method |-> "sample",
                name |-> solver_name, rng |-> g]>>
        ELSE IF solver_name \in EvolutionaryNames
        THEN <<[class |-> "Evolutionary", method |-> "optimize",
                name |-> solver_name, rng |-> g]>>
        ELSE <<>>

\* "hamiltonian" is missing from the first list
UpdateFunction_hastings_only(s) ==
    IF s._solver \in {"hastings"} THEN "_update_monte_carlo"
    ELSE IF s._solver \in {"cpso", "pso", "de", "cmaes"} THEN "_update_evolutionary"
    ELSE "unbound"

\* func of animate
UpdateFunction(s) ==
    IF s._solver \in {"hastings", "hamiltonian"} THEN "_update_monte_carlo"
    ELSE IF s._solver \in {"cpso", "pso", "de", "cmaes"} THEN "_update_evolutionary"
    ELSE "unbound"

\* gfit of animate
AnimatedFitness(s) ==
    IF s._solver \in {"hastings", "hamiltonian"} THEN s.energy
    ELSE _gfit(s.energy)

\* animation.FuncAnimation(self.fig, func, fargs = (models, gfit), ...);
\* its timer is running from the first draw
FuncAnimation(s, interval) ==
    [func |-> UpdateFunction(s), models |-> s.models, gfit |-> AnimatedFitness(s),
     frames |-> s.models.shape[Len(s.models.shape)], interval |-> interval,
     repeat |-> TRUE, running |-> TRUE, frame |-> 0]

\* ax1.plot([], [], ...) and ax2.plot([], [], ...): two lines without data
EmptyLine == [xdata |-> <<>>, ydata |-> <<>>]

TimerRunning(a) == a # None /\ a.running

\* animate never stops the timer of the animation it replaces
OrphansAfterAnimate_never_stopped ==
    IF TimerRunning(anim) THEN orphan_timers + 1 ELSE orphan_timers

\* animate stops the old timer only when anim_running says it runs
OrphansAfterAnimate ==
    IF ~anim_running /\ TimerRunning(anim) THEN orphan_timers + 1 ELSE orphan_timers

run ==
    IF check_variables(tk)
    THEN \E r \in randint(MAX_SEED) :
         LET v == [tk EXCEPT !.seed = NewSeed(tk, r)]
             g == SeededGenerator(tk, r)
             b == BenchmarkFunction(FuncKey(v.function), 2)
             s == Solve(v, b, g)
         IN  /\ first_run' = FirstRunAfter(TRUE)
             /\ tk' = v
             /\ bf' = b
             /\ solver' = s
             /\ calls' = SolverCalls(v, g)
             /\ rng' = Advance(g)
             /\ orphan_timers' = OrphansAfterAnimate
             /\ anim_running' = TRUE
             /\ anim' = FuncAnimation(s, v.interval)
             /\ scatplot' = EmptyLine
             /\ enerplot' = EmptyLine
             /\ event' = [op |-> "run", accepted |-> TRUE,
                          replaced |-> anim # None, stopped |-> anim_running]
             /\ dialog' = None
             /\ written' = None
    ELSE /\ first_run' = FirstRunAfter(FALSE)
         /\ dialog' = PopsizeError(tk)
         /\ event' = [op |-> "run", accepted |-> FALSE]
         /\ written' = None
         /\ calls' = <<>>
         /\ UNCHANGED <<tk, anim_running, solver, bf, anim, orphan_timers, scatplot, enerplot, rng>>

-----------------------------------------------------------------------------
(* Canvas click and the export menu entries.                               *)

\* the else branch restarts the timer and leaves anim_running False
_onClick_flag_kept ==
    /\ IF ~first_run
       THEN IF anim_running
            THEN /\ anim' = [anim EXCEPT !.running = FALSE]
                 /\ anim_running' = FALSE
            ELSE /\ anim' = [anim EXCEPT !.running = TRUE]
                 /\ anim_running' = anim_running
       ELSE UNCHANGED <<anim, anim_running>>
    /\ event' = [op |-> "click"]
    /\ dialog' = None
    /\ written' = None
    /\ calls' = <<>>
    /\ UNCHANGED <<tk, first_run, solver, bf, orphan_timers, scatplot, enerplot, rng, edits, ref>>

_onClick ==
    /\ IF ~first_run
       THEN IF anim_running
            THEN /\ anim' = [anim EXCEPT !.running = FALSE]
                 /\ anim_running' = FALSE
            ELSE /\ anim' = [anim EXCEPT !.running = TRUE]
                 /\ anim_running' = TRUE
       ELSE UNCHANGED <<anim, anim_running>>
    /\ event' = [op |-> "click"]
    /\ dialog' = None
    /\ written' = None
    /\ calls' = <<>>
    /\ UNCHANGED <<tk, first_run, solver, bf, orphan_timers, scatplot, enerplot, rng, edits, ref>>

NoRunError ==
    [kind |-> "showerror", title |-> "Error", text |-> "No optimization performed yet."]

_check_run_always == TRUE

_check_run == ~first_run

SaveDialog(title) == [kind |-> "asksaveasfilename", title |-> title, text |-> ""]

\* pickle.dump(array, f) into the file chosen, unless the dialog was cancelled
Export(op, title, array) ==
    /\ IF _check_run
       THEN \E filename \in Filenames :
            /\ dialog' = SaveDialog(title)
            /\ event' = [op |-> op, filename |-> filename]
            /\ written' = IF Len(filename) > 0
                          THEN [filename |-> filename, content |-> array]
                          ELSE None
       ELSE /\ dialog' = NoRunError
            /\ event' = [op |-> op, filename |-> <<>>]
            /\ written' = None
    /\ calls' = <<>>
    /\ UNCHANGED <<tk, first_run, anim_running, solver, bf, anim, orphan_timers, scatplot, enerplot,
                   rng, edits, ref>>

export_models == Export("export_models", "Export models", Attr(solver, "models"))

export_fitness_models == Export("export_fitness", "Export fitness", Attr(solver, "models"))

export_fitness == Export("export_fitness", "Export fitness", Attr(solver, "energy"))

-----------------------------------------------------------------------------
(* Widget edits.  A widget can be edited only while it is displayed.       *)

Edited(op) ==
    /\ event' = [op |-> op]
    /\ dialog' = None
    /\ written' = None
    /\ calls' = <<>>
    /\ UNCHANGED <<first_run, anim_running, solver, bf, anim, orphan_timers, scatplot, enerplot, rng, ref>>

\* the solver OptionMenu sets solver_name and calls select_widget, whose
\* hastings_widget sets the step-size scale to log10 of the step size
select_widget(name) ==
    /\ tk' = IF name \in {"Hastings", "Hamiltonian"}
             THEN [tk EXCEPT !.solver_name = name,
                             !.log_stepsize = Log10(tk.stepsize),
                             !.stepsize = Round3(Pow10(Log10(tk.stepsize)))]
             ELSE [tk EXCEPT !.solver_name = name]
    /\ Edited("select_widget")

set_function(name) ==
    /\ tk' = [tk EXCEPT !.function = name]
    /\ Edited("function")

\* frame1_pop shows the population spinbox for the evolutionary solvers only
set_popsize(n) ==
    /\ tk.solver_name \in Range(EAOPT)
    /\ tk' = [tk EXCEPT !.popsize = n]
    /\ Edited("popsize")

set_max_iter(n) ==
    /\ tk' = [tk EXCEPT !.max_iter = n]
    /\ Edited("max_iter")

set_interval(n) ==
    /\ tk' = [tk EXCEPT !.interval = n]
    /\ Edited("interval")

set_seed(n) ==
    /\ tk' = [tk EXCEPT !.seed = n]
    /\ Edited("seed")

toggle_fix_seed ==
    /\ tk' = [tk EXCEPT !.fix_seed = ~tk.fix_seed]
    /\ Edited("fix_seed")

toggle_clip ==
    /\ tk' = [tk EXCEPT !.clip = ~tk.clip]
    /\ Edited("clip")

\* the sliders of pso_widget, cpso_widget, de_widget and cmaes_widget
Scales(name) ==
    CASE name = "PSO" -> {"w", "c1", "c2"}
      [] name = "CPSO" -> {"w", "c1", "c2", "gamma"}
      [] name = "DE" -> {"CR", "F"}
      [] name = "CMAES" -> {"sigma", "mu_perc"}
      [] OTHER -> {}

\* the upper end (to) of each slider
ScaleEnd(var) ==
    CASE var = "w" -> Dec(1, 0)
      [] var \in {"c1", "c2"} -> Dec(4, 0)
      [] var = "gamma" -> Dec(2, 0)
      [] var = "CR" -> Dec(1, 0)
      [] var = "F" -> Dec(2, 0)
      [] var = "sigma" -> Dec(10, 0)
      [] var = "mu_perc" -> Dec(1, 0)

\* command = lambda s: variable.set(round(float(s), 3))
set_scale(var, x) ==
    /\ var \in Scales(tk.solver_name)
    /\ tk' = [tk EXCEPT ![var] = Round3(x)]
    /\ Edited("scale")

\* the step-size slider of hastings_widget, moved to 10^val
set_stepsize_scale(val) ==
    /\ tk.solver_name \in Range(MCOPT)
    /\ tk' = [tk EXCEPT !.log_stepsize = Dec(val, 0),
                        !.stepsize = Round3(Pow10(Dec(val, 0)))]
    /\ Edited("stepsize_scale")

\* the leap-frog slider of hamiltonian_widget
set_n_leap(n) ==
    /\ tk.solver_name = "Hamiltonian"
    /\ tk' = [tk EXCEPT !.n_leap = n]
    /\ Edited("n_leap")

\* the except branch moves the slider to zero
ValidatedTk_zeroed(v, val) ==
    LET x == ParseFloat(val)
    IN  IF x.kind # "ValueError"
        THEN [v EXCEPT !.log_stepsize = Log10(x)]
        ELSE [v EXCEPT !.log_stepsize = Dec(0, 0)]

\* try: self.log_stepsize.set(np.log10(float(val))) except ValueError: pass
ValidatedTk(v, val) ==
    LET x == ParseFloat(val)
    IN  IF x.kind # "ValueError"
        THEN [v EXCEPT !.log_stepsize = Log10(x)]
        ELSE v

\* the key validation of the step-size entry (validatecommand with %P)
_validate_stepsize(val) ==
    /\ tk.solver_name \in Range(MCOPT)
    /\ tk' = ValidatedTk(tk, val)
    /\ event' = [op |-> "validate", val |-> val, ret |-> TRUE]
    /\ dialog' = None
    /\ written' = None
    /\ calls' = <<>>
    /\ UNCHANGED <<first_run, anim_running, solver, bf, anim, orphan_timers, scatplot, enerplot, rng, ref>>

-----------------------------------------------------------------------------
FunctionChoices == {"Quartic noise"}
IntervalChoices == {1}
StepsizeScaleChoices == {-3, 1}
LeapChoices == {100}
SampleTexts == {<<"x">>, <<"1", "0">>}

ScaleVars == {"w", "c1", "c2", "gamma", "CR", "F", "sigma", "mu_perc"}

\* one more widget edit of the MaxEdits a session makes
Budget == edits < MaxEdits /\ edits' = edits + 1

Next ==
    \/ run /\ UNCHANGED <<edits, ref>>
    \/ _onClick
    \/ export_models
    \/ export_fitness
    \/ Budget /\ \E name \in Range(EAOPT) \cup Range(MCOPT) : select_widget(name)
    \/ Budget /\ \E name \in FunctionChoices : set_function(name)
    \/ Budget /\ \E n \in PopsizeChoices : set_popsize(n)
    \/ Budget /\ \E n \in MaxIterChoices : set_max_iter(n)
    \/ Budget /\ \E n \in IntervalChoices : set_interval(n)
    \/ Budget /\ \E n \in SeedChoices : set_seed(n)
    \/ Budget /\ toggle_fix_seed
    \/ Budget /\ toggle_clip
    \/ Budget /\ \E var \in ScaleVars : set_scale(var, ScaleEnd(var))
    \/ Budget /\ \E val \in StepsizeScaleChoices : set_stepsize_scale(val)
    \/ Budget /\ \E n \in LeapChoices : set_n_leap(n)
    \/ Budget /\ \E val \in SampleTexts : _validate_stepsize(val)

Spec == Init /\ [][Next]_vars

\* every text of at most MaxTextLen characters
Texts == UNION {[1..n -> TextChars] : n \in 0..MaxTextLen}

\* the step-size widgets alone: any number of keystrokes and slider moves
NextStepsize ==
    \/ \E name \in Range(EAOPT) \cup Range(MCOPT) :
         select_widget(name) /\ UNCHANGED edits
    \/ \E val \in StepsizeScaleChoices : set_stepsize_scale(val) /\ UNCHANGED edits
    \/ \E val \in Texts : _validate_stepsize(val) /\ UNCHANGED edits

SpecStepsize == Init /\ [][NextStepsize]_vars

\* run after optimize has returned: the solver holds an energy matrix, any of
\* at most MaxGfitRows by MaxGfitColumns with energies 0..MaxEnergy
InitGfit ==
    /\ tk = [solver_name |-> "CPSO", function |-> "Rosenbrock", popsize |-> 10,
             max_iter |-> 200, interval |-> 60, stepsize |-> Dec(1, -1),
             log_stepsize |-> Log10(Dec(1, -1)), n_leap |-> 10,
             w |-> Dec(72, -2), c1 |-> Dec(149, -2), c2 |-> Dec(149, -2),
             gamma |-> Dec(125, -2), CR |-> Dec(5, -1), F |-> Dec(1, 0),
             sigma |-> Dec(1, 0), mu_perc |-> Dec(5, -1), seed |-> 42,
             fix_seed |-> TRUE, clip |-> FALSE]
    /\ first_run = FALSE
    /\ anim_running = FALSE
    /\ bf = BenchmarkFunction("rosenbrock", 2)
    /\ \E p \in 1..MaxGfitRows, n \in 1..MaxGfitColumns :
         \E d \in [1..p -> [1..n -> 0..MaxEnergy]] :
            solver = [Evolutionary(bf, p, n, FALSE)
                        EXCEPT !._solver = "cpso",
                               !.energy = [shape |-> <<p, n>>, data |-> d],
                               !.models = [shape |-> <<2, p, n>>, data |-> <<d, d>>]]
    /\ anim = None
    /\ orphan_timers = 0
    /\ scatplot = None
    /\ enerplot = None
    /\ rng = [seed |-> 42, draws |-> 1]
    /\ event = [op |-> "optimize"]
    /\ dialog = None
    /\ written = None
    /\ calls = <<>>
    /\ edits = 0
    /\ ref = None

\* self.animate(interval = self.interval.get(), yscale = "log")
animate ==
    /\ anim' = FuncAnimation(solver, tk.interval)
    /\ scatplot' = EmptyLine
    /\ enerplot' = EmptyLine
    /\ anim_running' = TRUE
    /\ orphan_timers' = OrphansAfterAnimate
    /\ event' = [op |-> "animate"]
    /\ UNCHANGED <<tk, first_run, solver, bf, rng, dialog, written, calls, edits, ref>>

NextGfit == animate

SpecGfit == InitGfit /\ [][NextGfit]_vars

\* a[:stop] of numpy for stop >= 0: the first stop elements, or all of them
Slice(a, stop) == SubSeq(a, 1, IF stop < Len(a) THEN stop ELSE Len(a))

\* np.linspace(1, n, n)
Linspace(n) == [k \in 1..n |-> k]

_update_monte_carlo(i, models, gfit) ==
    /\ scatplot' = [xdata |-> Slice(models.data[1], i),
                    ydata |-> Slice(models.data[2], i)]
    /\ enerplot' = [xdata |-> Linspace(i + 1), ydata |-> Slice(gfit.data, i + 1)]

_update_evolutionary(i, models, gfit) ==
    /\ scatplot' = [xdata |-> [a \in 1..models.shape[2] |-> models.data[1][a][i + 1]],
                    ydata |-> [a \in 1..models.shape[2] |-> models.data[2][a][i + 1]]]
    /\ enerplot' = [xdata |-> Linspace(i + 1), ydata |-> Slice(gfit.data, i + 1)]

\* a callback of the animation's timer: func(i, models, gfit) for the next
\* frame i of range(frames), starting over after the last (repeat = True)
frame ==
    /\ TimerRunning(anim)
    /\ LET i == anim.frame
       IN  /\ IF anim.func = "_update_monte_carlo"
              THEN _update_monte_carlo(i, anim.models, anim.gfit)
              ELSE _update_evolutionary(i, anim.models, anim.gfit)
           /\ anim' = [anim EXCEPT !.frame = (i + 1) % anim.frames]
           /\ event' = [op |-> "frame", i |-> i]
    /\ dialog' = None
    /\ written' = None
    /\ calls' = <<>>
    /\ UNCHANGED <<tk, first_run, anim_running, solver, bf, orphan_timers, rng,
                   edits, ref>>

\* the replay: solver and iteration number chosen, Run, clicks and the frames
\* the timer delivers
NextReplay ==
    \/ \E name \in Range(EAOPT) \cup Range(MCOPT) :
         select_widget(name) /\ UNCHANGED edits
    \/ \E n \in 1..MaxColumns : set_max_iter(n) /\ UNCHANGED edits
    \/ run /\ UNCHANGED <<edits, ref>>
    \/ _onClick
    \/ frame

SpecReplay == Init /\ [][NextReplay]_vars

\* what the claim of repeatability fixes: every Tk variable a solver is given
RunKey(v) ==
    [seed |-> v.seed, function |-> v.function, solver_name |-> v.solver_name,
     popsize |-> v.popsize, max_iter |-> v.max_iter, clip |-> v.clip,
     stepsize |-> v.stepsize, n_leap |-> v.n_leap, w |-> v.w, c1 |-> v.c1,
     c2 |-> v.c2, gamma |-> v.gamma, CR |-> v.CR, F |-> v.F, sigma |-> v.sigma,
     mu_perc |-> v.mu_perc]

\* an accepted Run with "Fix seed" checked may be remembered, once
Remember ==
    IF ref = None /\ event'.accepted /\ tk'.fix_seed
    THEN ref' \in {ref, [key |-> RunKey(tk'), models |-> solver'.models,
                         energy |-> solver'.energy, edits |-> edits]}
    ELSE ref' = ref

NextRepeat ==
    \/ run /\ UNCHANGED edits /\ Remember
    \/ _onClick
    \/ export_models
    \/ export_fitness
    \/ Budget /\ \E name \in Range(EAOPT) \cup Range(MCOPT) : select_widget(name)
    \/ Budget /\ \E name \in FunctionChoices : set_function(name)
    \/ Budget /\ \E n \in PopsizeChoices : set_popsize(n)
    \/ Budget /\ \E n \in MaxIterChoices : set_max_iter(n)
    \/ Budget /\ \E n \in IntervalChoices : set_interval(n)
    \/ Budget /\ \E n \in SeedChoices : set_seed(n)
    \/ Budget /\ toggle_fix_seed
    \/ Budget /\ toggle_clip
    \/ Budget /\ \E var \in ScaleVars : set_scale(var, ScaleEnd(var))
    \/ Budget /\ \E val \in StepsizeScaleChoices : set_stepsize_scale(val)
    \/ Budget /\ \E n \in LeapChoices : set_n_leap(n)
    \/ Budget /\ \E val \in SampleTexts : _validate_stepsize(val)

SpecRepeat == Init /\ [][NextRepeat]_vars

-----------------------------------------------------------------------------
(* Claims.                                                                 *)

RunAccepted == event.op = "run" /\ event.accepted
RunRejected == event.op = "run" /\ ~event.accepted

\* the minimum population size the claim states for each evolutionary solver
BelowStatedMinimum(v) ==
    \/ v.solver_name \in {"CPSO", "PSO"} /\ v.popsize < 2
    \/ v.solver_name \in {"DE", "CMAES"} /\ v.popsize < 4

\* C1: a Run is rejected, with a modal error dialog, exactly when the solver
\* selected is CPSO or PSO with a population below 2, or DE or CMAES with a
\* population below 4; an accepted Run shows no dialog, and a Run with
\* Hastings or Hamiltonian selected is never rejected.
C1_RejectedIffBelowMinimum ==
    event.op = "run" =>
        /\ ~event.accepted <=> BelowStatedMinimum(tk)
        /\ ~event.accepted <=> (dialog # None /\ dialog.kind = "showerror")
        /\ tk.solver_name \in {"Hastings", "Hamiltonian"} => event.accepted

C1_Witness ==
    /\ RunRejected
    /\ tk.solver_name = "DE"
    /\ tk.popsize = 3
    /\ dialog.kind = "showerror"

ProgramState ==
    <<tk, first_run, anim_running, solver, bf, anim, orphan_timers, scatplot,
      enerplot, rng>>

\* C2: a rejected Run changes neither first_run, anim_running, the seed and
\* the other Tk variables, the stored solver and benchmark function, the
\* animation and its timer nor the generator, and calls no solver method.
C2_RejectedRunChangesNothing ==
    [][(event'.op = "run" /\ ~event'.accepted) =>
          /\ UNCHANGED ProgramState
          /\ calls' = <<>>
          /\ written' = None]_vars

C2_Witness ==
    /\ RunRejected
    /\ ~first_run
    /\ anim # None
    /\ anim_running

Exporting == event.op \in {"export_models", "export_fitness"}

\* C3: while no Run has been accepted (no solver object exists), each export
\* shows the error "No optimization performed yet.", opens no save dialog and
\* writes no file.
C3_ExportBeforeRun ==
    (Exporting /\ solver = None) =>
        /\ dialog = [kind |-> "showerror", title |-> "Error",
                     text |-> "No optimization performed yet."]
        /\ written = None

C3_Witness ==
    /\ event.op = "export_fitness"
    /\ solver = None
    /\ edits > 0
    /\ dialog.kind = "showerror"

\* the statement of C4 as claimed: each export writes the array the current
\* animation replays
C4_ExportWritesAnimatedArrays ==
    (Exporting /\ solver # None /\ written # None) =>
        IF event.op = "export_models"
        THEN ArrayEqual(written.content, anim.models)
        ELSE ArrayEqual(written.content, anim.gfit)

\* C4: after an accepted Run each export opens the save dialog and writes
\* nothing when the file name is empty; otherwise "Export models" writes the
\* trajectory array the current animation replays, and "Export fitness" writes
\* the energy array of the same Run: the array the animation replays after a
\* Monte Carlo run, and after an evolutionary run the population-by-iteration
\* matrix from which _gfit computes the curve the animation replays.  The
\* widget values at the time of the export play no part.
C4_ExportWritesLastRun ==
    (Exporting /\ solver # None) =>
        /\ dialog.kind = "asksaveasfilename"
        /\ Len(event.filename) = 0 => written = None
        /\ Len(event.filename) > 0 =>
             /\ written # None
             /\ written.filename = event.filename
             /\ IF event.op = "export_models"
                THEN ArrayEqual(written.content, anim.models)
                ELSE IF anim.func = "_update_monte_carlo"
                THEN ArrayEqual(written.content, anim.gfit)
                ELSE /\ Len(written.content.shape) = 2
                     /\ ArrayEqual(_gfit(written.content), anim.gfit)

\* an evolutionary run exported after the iteration count was edited
C4_Witness ==
    /\ event.op = "export_fitness"
    /\ written # None
    /\ anim.func = "_update_evolutionary"
    /\ solver.max_iter # tk.max_iter

\* C5: before the first accepted Run a canvas click changes nothing; after it
\* a click stops a running timer and starts a stopped one, anim_running
\* following the timer, and changes nothing else.
C5_ClickToggles ==
    [][event'.op = "click" =>
          IF first_run
          THEN UNCHANGED ProgramState
          ELSE /\ anim'.running = ~anim.running
               /\ anim_running' = anim'.running
               /\ anim' = [anim EXCEPT !.running = ~anim.running]
               /\ UNCHANGED <<tk, first_run, solver, bf, orphan_timers, scatplot, enerplot, rng>>]_vars

\* a second click has restarted the timer
C5_Witness ==
    /\ event.op = "click"
    /\ ~first_run
    /\ anim_running
    /\ anim.running
    /\ edits > 0

\* texts and the logarithm each must give, written out
NumberAnchors ==
    { <<<<"1">>, [kind |-> "dec", m |-> 0, e |-> 0]>>,
      <<<<"1", "0">>, [kind |-> "dec", m |-> 1, e |-> 0]>>,
      <<<<".", "1">>, [kind |-> "dec", m |-> -1, e |-> 0]>>,
      <<<<"1", ".">>, [kind |-> "dec", m |-> 0, e |-> 0]>>,
      <<<<"0">>, [kind |-> "-inf", m |-> 0, e |-> 0]>>,
      <<<<"-", "1">>, [kind |-> "nan", m |-> 0, e |-> 0]>>,
      <<<<"1", "1">>, [kind |-> "log10", m |-> 11, e |-> 0]>> }

JunkAnchors == { <<>>, <<"x">>, <<".">>, <<"-">>, <<"e">>, <<"1", "e">>,
                 <<"e", "1">>, <<"1", "x">>, <<"-", "-">>, <<".", ".">> }

\* C6: the validation callback returns True, opens no dialog and touches no
\* state but log_stepsize; text that float() rejects leaves log_stepsize and
\* every other Tk variable as they were, text it accepts sets log_stepsize to
\* log10 of the number.
C6_ValidateStepsize ==
    [][event'.op = "validate" =>
          LET val == event'.val
              x == ParseFloat(val)
          IN  /\ event'.ret = TRUE
              /\ dialog' = None
              /\ written' = None
              /\ UNCHANGED <<first_run, anim_running, solver, bf, anim,
                             orphan_timers, scatplot, enerplot, rng>>
              /\ x.kind = "ValueError" => tk' = tk
              /\ x.kind # "ValueError" =>
                    tk' = [tk EXCEPT !.log_stepsize = Log10(x)]
              /\ val \in JunkAnchors => tk' = tk
              /\ \A a \in NumberAnchors :
                    val = a[1] => tk' = [tk EXCEPT !.log_stepsize = a[2]]]_vars

\* junk typed after a number: the logarithm of the number is still there
C6_Witness ==
    /\ event.op = "validate"
    /\ event.val = <<"x">>
    /\ tk.log_stepsize = Dec(1, 0)
    /\ tk.stepsize = Dec(1, -1)

\* C7: an accepted Run calls one solver method, once: sample on a MonteCarlo
\* object when Hastings or Hamiltonian is selected, optimize on an
\* Evolutionary object when CPSO, PSO, DE or CMAES is; the animation then
\* updates with the function of the same family.
C7_OneSolverMethod ==
    RunAccepted =>
        /\ Len(calls) = 1
        /\ calls[1].name = solver._solver
        /\ IF tk.solver_name \in {"Hastings", "Hamiltonian"}
           THEN /\ calls[1].method = "sample"
                /\ calls[1].class = "MonteCarlo"
                /\ solver.class = "MonteCarlo"
                /\ anim.func = "_update_monte_carlo"
           ELSE /\ tk.solver_name \in {"CPSO", "PSO", "DE", "CMAES"}
                /\ calls[1].method = "optimize"
                /\ calls[1].class = "Evolutionary"
                /\ solver.class = "Evolutionary"
                /\ anim.func = "_update_evolutionary"

C7_Witness ==
    /\ RunAccepted
    /\ tk.solver_name = "Hamiltonian"
    /\ calls[1].method = "sample"
    /\ anim.func = "_update_monte_carlo"

\* C8: an accepted Run with "Fix seed" unchecked replaces the seed variable by
\* an integer of 0..MAX_SEED, with "Fix seed" checked it leaves the seed as
\* it was; no other Tk variable changes, and the solver method is called with
\* the generator freshly seeded with the value the seed variable then holds.
C8_SeedAndGenerator ==
    [][(event'.op = "run" /\ event'.accepted) =>
          /\ tk.fix_seed => tk'.seed = tk.seed
          /\ ~tk.fix_seed => tk'.seed \in 0..MAX_SEED
          /\ tk' = [tk EXCEPT !.seed = tk'.seed]
          /\ Len(calls') = 1
          /\ calls'[1].rng = [seed |-> tk'.seed, draws |-> 0]]_vars

C8_Witness ==
    /\ RunAccepted
    /\ ~tk.fix_seed
    /\ tk.seed = MAX_SEED - 1
    /\ calls[1].rng.seed = MAX_SEED - 1

\* C9: an accepted Run with "Fix seed" checked returns the trajectory and
\* fitness arrays of any earlier such Run made with the same seed, function,
\* solver, population size, iteration count, clip flag and hyperparameters.
C9_Repeatable ==
    (RunAccepted /\ tk.fix_seed /\ ref # None /\ RunKey(tk) = ref.key) =>
        /\ ArrayEqual(solver.models, ref.models)
        /\ ArrayEqual(solver.energy, ref.energy)

\* the same Run repeated after a widget that is no argument was edited
C9_Witness ==
    /\ RunAccepted
    /\ tk.fix_seed
    /\ ref # None
    /\ RunKey(tk) = ref.key
    /\ edits > ref.edits

\* the least value of the first i columns of an energy matrix
MinUpTo(energy, i) ==
    LET values == {energy.data[a][j] : a \in 1..energy.shape[1], j \in 1..i}
    IN  CHOOSE v \in values : \A u \in values : v <= u

\* C10: the curve animate computes with _gfit from a population-by-iteration
\* energy matrix has one entry for each iteration, entry i is the least energy
\* of all individuals in the iterations up to i, and no entry exceeds the one
\* before it.
C10_GlobalBestCurve ==
    (anim # None /\ anim.func = "_update_evolutionary") =>
        LET energy == solver.energy
            gfit == anim.gfit
            n == energy.shape[2]
        IN  /\ gfit.shape = <<n>>
            /\ Len(gfit.data) = n
            /\ \A i \in 1..n : gfit.data[i] = MinUpTo(energy, i)
            /\ \A i \in 1..(n - 1) : gfit.data[i + 1] <= gfit.data[i]

\* a curve that keeps its first entry although the next iteration is worse
C10_Witness ==
    /\ anim # None
    /\ anim.func = "_update_evolutionary"
    /\ solver.energy.shape = <<2, 2>>
    /\ anim.gfit.data = <<1, 1>>
    /\ solver.energy.data[1][2] = 2
    /\ solver.energy.data[2][2] = 2

\* the timers that are active: the current animation's and the orphans
ActiveTimers == orphan_timers + (IF TimerRunning(anim) THEN 1 ELSE 0)

\* C11: after any sequence of Run, canvas-click and export events at most one
\* animation timer is active, and anim_running is true exactly when the timer
\* of the current animation is active; an accepted Run leaves the new
\* animation playing with anim_running true, whether the replaced animation
\* was playing (then its timer was stopped) or paused.
C11_OneTimer ==
    /\ ActiveTimers <= 1
    /\ orphan_timers = 0
    /\ anim_running <=> TimerRunning(anim)
    /\ (event.op = "run" /\ event.accepted) =>
            /\ anim_running
            /\ TimerRunning(anim)
            /\ ActiveTimers = 1

\* an accepted Run made while the previous animation was paused
C11_Witness ==
    /\ event.op = "run"
    /\ event.accepted
    /\ event.replaced
    /\ ~event.stopped
    /\ anim_running
    /\ TimerRunning(anim)
    /\ ActiveTimers = 1

\* C12: in a Monte Carlo replay, after the callback of frame i (0 <= i < number
\* of samples) the left panel shows samples 1..i+1 and the right panel fitness
\* values 1..i+1, no more than the arrays hold, and after the last frame both
\* panels show everything.
C12_MonteCarloInStep ==
    (event.op = "frame" /\ anim.func = "_update_monte_carlo") =>
        LET i == event.i
            n == anim.models.shape[2]
        IN  /\ i \in 0..(n - 1)
            /\ i + 1 <= Len(anim.models.data[1])
            /\ i + 1 <= Len(anim.gfit.data)
            /\ scatplot.xdata = SubSeq(anim.models.data[1], 1, i + 1)
            /\ scatplot.ydata = SubSeq(anim.models.data[2], 1, i + 1)
            /\ enerplot.xdata = Linspace(i + 1)
            /\ enerplot.ydata = SubSeq(anim.gfit.data, 1, i + 1)
            /\ (i = n - 1) =>
                    /\ scatplot.xdata = anim.models.data[1]
                    /\ scatplot.ydata = anim.models.data[2]
                    /\ enerplot.ydata = anim.gfit.data

=============================================================================
